---- MODULE Spec2Model ----
(***************************************************************************)
(* A model of src/main.py: the WebScraper class and main().                *)
(*                                                                         *)
(* main() constructs a WebScraper (which reads robots.txt and opens the    *)
(* sqlite store), runs async_scrape (concurrent fetch of /page/1..n,       *)
(* gathered in order, then a sequential extract-and-save loop) and exports *)
(* the returned list.                                                      *)
(***************************************************************************)
EXTENDS Integers, Sequences, FiniteSets, TLC

\* ------------------------------------------------------------------ bounds

\* The largest max_pages a run is started with (the source's default is 5).
MaxPages == 3

\* The largest number of direct _save_to_database calls of SpecStore.
MaxUpserts == 3

\* ------------------------------------------------------------------ state

VARIABLES
    pc,           \* where main() is: "init", "loaded", "fetching",
                  \* "persisting", "exporting", "done"; "aborted" (left by
                  \* an exception), "crashed" (killed); "store" in SpecStore
    robots_how,   \* how the retrieval of robots.txt ended ("none" before)
    robot_parser, \* self.robot_parser
    db0,          \* the store as the run found it
    db,           \* scraped_data.db: the committed rows and AUTOINCREMENT sequence
    conn,         \* the store as self.db_connection sees it: db and the
                  \* statements executed since the last commit
    urls,         \* async_scrape: urls
    tasks,        \* async_scrape: tasks, one per url
    pages,        \* async_scrape: pages, the gathered results
    k,            \* async_scrape: the position of the loop over zip(urls, pages)
    at,           \* inside iteration k: "item" (before line 97) or "commit"
                  \* (the INSERT executed, before line 111)
    all_data,     \* async_scrape: all_data
    results,      \* main: results, the list async_scrape returned
    upserts,      \* the items whose _save_to_database call returned, in order
    first_done,   \* the task whose request resolved first (0: none yet)
    last_fetch    \* the outcome of the latest direct fetch_page(url) call

vars == <<pc, robots_how, robot_parser, db0, db, conn, at, conn, urls, tasks, pages, k, at,
          all_data, results, upserts, first_done, last_fetch>>

\* ------------------------------------------------------------ URLs, bodies

BaseUrl == "https://example.com"

Pages == 1..MaxPages

\* f"{self.base_url}/page/{page}": origin and path segments.
PageUrl(page) == <<BaseUrl, "page", page>>

\* The path of a URL, as can_fetch takes it from urlparse(url).path.
UrlPath(url) == SubSeq(url, 2, Len(url))

\* Optional[str]: None, or a str.
None == [some |-> FALSE, text |-> ""]

Str(s) == [some |-> TRUE, text |-> s]

\* Python truthiness of an Optional[str]: None and "" are both falsy.
Truthy(x) == x.some /\ x.text /= ""

\* The page bodies a server may send: an empty body, a page with an <h1>,
\* a page with a <meta name="description" content=...>, and a page whose
\* <meta name="description"> has no content attribute.
Bodies == {"", "<h1>T</h1>", "<meta name=description content=D>", "<meta name=description>"}

\* ------------------------------------------------------------- robots.txt

\* The ways the retrieval of robots.txt can end.
RobotsFetch == {"200", "401", "403", "404", "500", "neterr"}

\* The Disallow lines of the "*" group of a retrieved robots.txt.
RuleSets == (SUBSET {UrlPath(PageUrl(p)) : p \in Pages}) \cup {{<<"page">>}}

\* A freshly constructed RobotFileParser.
NewRobotParser ==
    [disallow_all |-> FALSE, allow_all |-> FALSE, last_checked |-> FALSE, disallowed |-> {}]

\* RobotFileParser.read(): 401/403 disallow everything, any other 4xx allows
\* everything, a 5xx sets nothing, a 200 is parsed. (A network error raises;
\* see Construct.)
RobotRead(parser, how, rules) ==
    CASE how \in {"401", "403"} -> [parser EXCEPT !.disallow_all = TRUE]
      [] how = "404" -> [parser EXCEPT !.allow_all = TRUE]
      [] how = "200" -> [parser EXCEPT !.last_checked = TRUE, !.disallowed = rules]
      [] OTHER -> parser

\* A Disallow path matches every path it is a prefix of.
IsPrefix(s, t) == Len(s) <= Len(t) /\ SubSeq(t, 1, Len(s)) = s

\* RobotFileParser.can_fetch("*", url).
can_fetch(parser, url) ==
    IF parser.disallow_all THEN FALSE
    ELSE IF parser.allow_all THEN TRUE
    ELSE IF ~parser.last_checked THEN FALSE
    ELSE ~\E rule \in parser.disallowed : IsPrefix(rule, UrlPath(url))

\* ------------------------------------------------------------------ store

ScrapedItem(title, description, url) ==
    [title |-> title, description |-> description, url |-> url]

EmptyStore == [rows |-> {}, seq |-> 0]

SetMax(S) == IF S = {} THEN 0 ELSE CHOOSE m \in S : \A x \in S : x <= m

\* A scraped_data.db left by earlier runs: one row per page of S.
StoreWith(S) ==
    [rows |-> {[id |-> p, title |-> "old", description |-> "old", url |-> PageUrl(p)] : p \in S},
     seq |-> SetMax(S)]

\* A plain INSERT into a table without the UNIQUE(url) constraint.
save_to_database_noreplace(store, item) ==
    [rows |-> store.rows \cup
              {[id |-> store.seq + 1, title |-> item.title,
                description |-> item.description, url |-> item.url]},
     seq |-> store.seq + 1]

\* An upsert that updates the row of the url in place, keeping its id, and
\* inserts a row with a new id only when the url is absent.
save_to_database_inplace(store, item) ==
    IF \E r \in store.rows : r.url = item.url
    THEN [rows |-> {IF r.url = item.url
                    THEN [r EXCEPT !.title = item.title, !.description = item.description]
                    ELSE r : r \in store.rows},
          seq |-> store.seq]
    ELSE [rows |-> store.rows \cup
                   {[id |-> store.seq + 1, title |-> item.title,
                     description |-> item.description, url |-> item.url]},
          seq |-> store.seq + 1]

\* A save that empties the table before it inserts.
save_to_database_truncating(store, item) ==
    [rows |-> {[id |-> store.seq + 1, title |-> item.title,
                description |-> item.description, url |-> item.url]},
     seq |-> store.seq + 1]

\* INSERT OR REPLACE ... ; commit. The UNIQUE(url) conflict deletes the old
\* row; the new row takes the next AUTOINCREMENT id.
save_to_database(store, item) ==
    [rows |-> {r \in store.rows : r.url /= item.url} \cup
              {[id |-> store.seq + 1, title |-> item.title,
                description |-> item.description, url |-> item.url]},
     seq |-> store.seq + 1]

\* A commit that is put off to the end of the run.
commit_deferred(durable, working) == durable

\* self.db_connection.commit(): what the connection executed becomes durable.
commit(durable, working) == working

\* ------------------------------------------------------------- extraction

\* soup.find('h1').text.strip() if soup.find('h1') else ''
Title(html) == IF html = "<h1>T</h1>" THEN "T" ELSE ""

\* description['content'] if description else ''
Description(html) == IF html = "<meta name=description content=D>" THEN "D" ELSE ""

\* description['content'] raises KeyError when the tag has no content.
ExtractRaises(html) == html = "<meta name=description>"

extract_data(html, url) == ScrapedItem(Title(html), Description(html), url)

\* ---------------------------------------------------------------- fetching

\* What the network gives back for one GET: an HTTP response (a status and
\* a body), a client/transport error (DNS, connection, socket timeout,
\* payload), or the expiry of the request's total timeout.
Responses ==
    [kind : {"http"}, status : {200, 500}, body : Bodies]
    \cup {[kind |-> "client_error", status |-> 0, body |-> ""],
          [kind |-> "timeout", status |-> 0, body |-> ""]}

\* The User-Agent set on self.session in __init__.
BrowserUserAgent ==
    "Mozilla/5.0 (Windows NT 10.0; Win64; x64) AppleWebKit/537.36 (KHTML, like Gecko) Chrome/91.0.4472.124 Safari/537.36"

\* The User-Agent an aiohttp.ClientSession() sends when given no headers.
AiohttpUserAgent == "Python aiohttp"

NoRequest == [method |-> "", ua |-> ""]

\* self.session.get(url): the requests.Session of __init__, with its headers.
requests_session_get(url) == [method |-> "GET", ua |-> BrowserUserAgent]

\* session.get(url) on the aiohttp.ClientSession() of async_scrape, which is
\* created without headers.
aiohttp_session_get(url) == [method |-> "GET", ua |-> AiohttpUserAgent]

\* One task of `tasks`: a coroutine async_fetch_page(url, session).
\*   st    "pending" (created), "inflight" (suspended in session.get),
\*         "done" (returned res), "raised" (ended with an exception)
\*   res   the returned Optional[str]
\*   sent  the number of GETs the task has issued for its url
\*   got   what the network answered: "none", "200", "500", "client_error",
\*         "timeout"
\*   req   the request the task issued
NewTask == [st |-> "pending", res |-> None, sent |-> 0, got |-> "none", req |-> NoRequest]

\* An async_fetch_page without the robots check.
async_fetch_page_unchecked(task, parser, url) ==
    [task EXCEPT !.st = "inflight", !.sent = @ + 1, !.req = aiohttp_session_get(url)]

\* async_fetch_page up to its first suspension: the robots check, then
\* session.get(url).
async_fetch_page_start(task, parser, url) ==
    IF ~can_fetch(parser, url)
    THEN [task EXCEPT !.st = "done", !.res = None]
    ELSE [task EXCEPT !.st = "inflight", !.sent = @ + 1, !.req = aiohttp_session_get(url)]

Got(response) ==
    IF response.kind = "http" THEN ToString(response.status) ELSE response.kind

\* An async_fetch_page that tries again after an aiohttp.ClientError.
async_fetch_page_retrying(task, response) ==
    CASE response.kind = "http" ->
           [task EXCEPT !.st = "done", !.res = Str(response.body), !.got = Got(response)]
      [] response.kind = "client_error" ->
           [task EXCEPT !.st = "pending", !.got = Got(response)]
      [] OTHER ->
           [task EXCEPT !.st = "raised", !.got = Got(response)]

\* async_fetch_page from the response on: `return await response.text()`
\* whatever the status; `except aiohttp.ClientError` returns None; any other
\* exception (asyncio.TimeoutError) leaves the coroutine.
async_fetch_page_finish(task, response) ==
    CASE response.kind = "http" ->
           [task EXCEPT !.st = "done", !.res = Str(response.body), !.got = Got(response)]
      [] response.kind = "client_error" ->
           [task EXCEPT !.st = "done", !.res = None, !.got = Got(response)]
      [] OTHER ->
           [task EXCEPT !.st = "raised", !.got = Got(response)]

\* fetch_page(url): the robots check, session.get, raise_for_status; every
\* requests.RequestException (HTTP status, connection, timeout) gives None.
fetch_page(parser, url, response) ==
    IF ~can_fetch(parser, url)
    THEN [url |-> url, sent |-> FALSE, res |-> None, req |-> NoRequest]
    ELSE IF response.kind = "http" /\ response.status = 200
         THEN [url |-> url, sent |-> TRUE, res |-> Str(response.body),
               req |-> requests_session_get(url)]
         ELSE [url |-> url, sent |-> TRUE, res |-> None, req |-> requests_session_get(url)]

\* A gather that yields the result of the first request to resolve first
\* (completion order), the others after it.
gather_as_completed(ts) ==
    LET F[i \in 0..Len(ts)] ==
          IF i = 0 THEN <<>>
          ELSE IF i = first_done THEN F[i - 1] ELSE Append(F[i - 1], ts[i].res)
    IN IF first_done = 0 THEN F[Len(ts)] ELSE <<ts[first_done].res>> \o F[Len(ts)]

\* asyncio.gather(*tasks): the results in the order of the tasks.
gather(ts) == [i \in 1..Len(ts) |-> ts[i].res]

\* zip(urls, pages): as many pairs as the shorter of the two.
ZipLen(us, ps) == IF Len(us) <= Len(ps) THEN Len(us) ELSE Len(ps)

\* A loop body that appends the item and does not save it.
scrape_item_unsaved(data, store, url, html) ==
    IF Truthy(html)
    THEN [all_data |-> Append(data, extract_data(html.text, url)), db |-> store]
    ELSE [all_data |-> data, db |-> store]

\* One pass of the loop body of async_scrape for the pair (url, html):
\* the list and the store after it.
scrape_item(data, store, url, html) ==
    IF Truthy(html)
    THEN [all_data |-> Append(data, extract_data(html.text, url)),
          db |-> save_to_database(store, extract_data(html.text, url))]
    ELSE [all_data |-> data, db |-> store]

\* ---------------------------------------------------------------- actions

NoFetch == [url |-> <<>>, sent |-> FALSE, res |-> None, req |-> NoRequest]

\* scraped_data.db as a run may find it: absent, or holding page 1 from an
\* earlier run.
InitialStores == {EmptyStore, StoreWith({1})}

Init ==
    /\ pc = "init"
    /\ robots_how = "none"
    /\ robot_parser = NewRobotParser
    /\ db0 \in InitialStores
    /\ db = db0
    /\ conn = db0
    /\ urls = <<>>
    /\ tasks = <<>>
    /\ pages = <<>>
    /\ k = 0
    /\ at = "item"
    /\ all_data = <<>>
    /\ results = <<>>
    /\ upserts = <<>>
    /\ first_done = 0
    /\ last_fetch = NoFetch

\* WebScraper.__init__: read robots.txt, open the store, create the table.
\* urlopen raising URLError leaves the constructor, and main, by exception.
Construct ==
    /\ pc = "init"
    /\ \E how \in RobotsFetch, rules \in RuleSets :
         /\ how /= "200" => rules = {}
         /\ robots_how' = how
         /\ IF how = "neterr"
            THEN /\ pc' = "aborted"
                 /\ UNCHANGED robot_parser
            ELSE /\ pc' = "loaded"
                 /\ robot_parser' = RobotRead(NewRobotParser, how, rules)
    /\ UNCHANGED <<db0, db, conn, at, urls, tasks, pages, k, all_data, results, upserts, first_done, last_fetch>>

\* A direct call of fetch_page(url) on the constructed scraper.
FetchPage ==
    /\ pc = "loaded"
    /\ \E p \in Pages, response \in Responses :
         last_fetch' = fetch_page(robot_parser, PageUrl(p), response)
    /\ UNCHANGED <<pc, robots_how, robot_parser, db0, db, conn, at, urls, tasks, pages, k,
                   all_data, results, upserts, first_done>>

\* An async_scrape that may start on a scraper whose constructor has not
\* read robots.txt yet.
AsyncScrapeStart_unloaded ==
    /\ pc \in {"init", "loaded"}
    /\ \E max_pages \in 0..MaxPages :
         /\ urls' = [page \in 1..max_pages |-> PageUrl(page)]
         /\ tasks' = [page \in 1..max_pages |-> NewTask]
    /\ pc' = "fetching"
    /\ last_fetch' = NoFetch
    /\ UNCHANGED <<robots_how, robot_parser, db0, db, conn, at, pages, k, all_data, results, upserts, first_done>>

\* async_scrape(max_pages) up to the await of gather: the urls and one task
\* per url. The caller's last fetch_page result is dropped here.
AsyncScrapeStart ==
    /\ pc = "loaded"
    /\ \E max_pages \in 0..MaxPages :
         /\ urls' = [page \in 1..max_pages |-> PageUrl(page)]
         /\ tasks' = [page \in 1..max_pages |-> NewTask]
    /\ pc' = "fetching"
    /\ last_fetch' = NoFetch
    /\ UNCHANGED <<robots_how, robot_parser, db0, db, conn, at, pages, k, all_data, results, upserts, first_done>>

\* The event loop runs task i up to its first suspension.
TaskStart ==
    /\ pc = "fetching"
    /\ \E i \in 1..Len(tasks) :
         /\ tasks[i].st = "pending"
         /\ tasks' = [tasks EXCEPT ![i] = async_fetch_page_start(@, robot_parser, urls[i])]
    /\ UNCHANGED <<pc, robots_how, robot_parser, db0, db, conn, at, urls, pages, k, all_data,
                   results, upserts, first_done, last_fetch>>

\* The request of task i resolves. A task that ends with an exception makes
\* gather raise; the exception leaves async_scrape and main.
TaskFinish ==
    /\ pc = "fetching"
    /\ \E i \in 1..Len(tasks), response \in Responses :
         /\ tasks[i].st = "inflight"
         /\ tasks' = [tasks EXCEPT ![i] = async_fetch_page_finish(@, response)]
         /\ pc' = IF tasks'[i].st = "raised" THEN "aborted" ELSE pc
         /\ first_done' = IF first_done = 0 THEN i ELSE first_done
    /\ UNCHANGED <<robots_how, robot_parser, db0, db, conn, at, urls, pages, k, all_data,
                   results, upserts, last_fetch>>

\* gather returns once every task is done.
GatherReturn ==
    /\ pc = "fetching"
    /\ \A i \in 1..Len(tasks) : tasks[i].st = "done"
    /\ pages' = gather(tasks)
    /\ all_data' = <<>>
    /\ k' = 1
    /\ pc' = "persisting"
    /\ UNCHANGED <<robots_how, robot_parser, db0, db, conn, at, urls, tasks, results, upserts, first_done, last_fetch>>

\* Iteration k of `for url, html in zip(urls, pages)` up to the commit:
\* the test of html, extract_data, the append and the INSERT OR REPLACE. A
\* KeyError of extract_data leaves async_scrape and main.
PersistItem ==
    /\ pc = "persisting"
    /\ at = "item"
    /\ k <= ZipLen(urls, pages)
    /\ IF Truthy(pages[k]) /\ ExtractRaises(pages[k].text)
       THEN /\ pc' = "aborted"
            /\ UNCHANGED <<k, at, all_data, conn>>
       ELSE /\ all_data' = scrape_item(all_data, conn, urls[k], pages[k]).all_data
            /\ conn' = scrape_item(all_data, conn, urls[k], pages[k]).db
            /\ IF Truthy(pages[k])
               THEN at' = "commit" /\ k' = k
               ELSE at' = "item" /\ k' = k + 1
            /\ pc' = pc
    /\ UNCHANGED <<robots_how, robot_parser, db0, db, urls, tasks, pages, results,
                   upserts, first_done, last_fetch>>

\* self.db_connection.commit() of iteration k; _save_to_database returns.
Commit ==
    /\ pc = "persisting"
    /\ at = "commit"
    /\ db' = commit(db, conn)
    /\ upserts' = Append(upserts, all_data[Len(all_data)])
    /\ at' = "item"
    /\ k' = k + 1
    /\ UNCHANGED <<pc, robots_how, robot_parser, db0, conn, urls, tasks, pages, all_data,
                   results, first_done, last_fetch>>

\* The INSERT or the commit of iteration k raises sqlite3.Error, which leaves
\* async_scrape and main; what was not committed is rolled back.
WriteFails ==
    /\ pc = "persisting"
    /\ at = "commit"
    /\ pc' = "aborted"
    /\ conn' = db
    /\ UNCHANGED <<robots_how, robot_parser, db0, db, urls, tasks, pages, k, at, all_data,
                   results, upserts, first_done, last_fetch>>

\* The process is killed somewhere in the loop; what was not committed is
\* lost.
Crash ==
    /\ pc = "persisting"
    /\ pc' = "crashed"
    /\ conn' = db
    /\ UNCHANGED <<robots_how, robot_parser, db0, db, urls, tasks, pages, k, at, all_data,
                   results, upserts, first_done, last_fetch>>

\* `return all_data`, back in main.
ScrapeReturn ==
    /\ pc = "persisting"
    /\ at = "item"
    /\ k > ZipLen(urls, pages)
    /\ results' = all_data
    /\ pc' = "exporting"
    /\ UNCHANGED <<robots_how, robot_parser, db0, db, conn, at, urls, tasks, pages, k, all_data,
                   upserts, first_done, last_fetch>>

\* export_to_csv, export_to_json and the printed summary.
Export ==
    /\ pc = "exporting"
    /\ pc' = "done"
    /\ UNCHANGED <<robots_how, robot_parser, db0, db, conn, at, urls, tasks, pages, k, all_data,
                   results, upserts, first_done, last_fetch>>

Next ==
    \/ Construct
    \/ FetchPage
    \/ AsyncScrapeStart
    \/ TaskStart
    \/ TaskFinish
    \/ GatherReturn
    \/ PersistItem
    \/ Commit
    \/ WriteFails
    \/ Crash
    \/ ScrapeReturn
    \/ Export

Spec == Init /\ [][Next]_vars

\* ------------------------------------------------- direct calls of the store

\* The items _save_to_database is called with directly.
UpsertItems ==
    {extract_data(b, PageUrl(p)) : b \in {x \in Bodies : ~ExtractRaises(x)}, p \in Pages}

\* A constructed scraper whose store holds any set of pages of earlier runs.
InitStore ==
    /\ pc = "store"
    /\ robots_how = "none"
    /\ robot_parser = NewRobotParser
    /\ db0 \in {StoreWith(S) : S \in SUBSET Pages}
    /\ db = db0
    /\ conn = db0
    /\ urls = <<>>
    /\ tasks = <<>>
    /\ pages = <<>>
    /\ k = 0
    /\ at = "item"
    /\ all_data = <<>>
    /\ results = <<>>
    /\ upserts = <<>>
    /\ first_done = 0
    /\ last_fetch = NoFetch

\* _save_to_database(item), called directly.
DirectSave ==
    /\ pc = "store"
    /\ Len(upserts) < MaxUpserts
    /\ \E item \in UpsertItems :
         /\ db' = save_to_database(db, item)
         /\ conn' = db'
         /\ upserts' = Append(upserts, item)
    /\ UNCHANGED <<pc, robots_how, robot_parser, db0, urls, tasks, pages, k, at, all_data,
                   results, first_done, last_fetch>>

NextStore == DirectSave

SpecStore == InitStore /\ [][NextStore]_vars

\* ----------------------------------------------------------------- claims

TaskIds == 1..Len(tasks)

\* gather has returned.
Gathered == k >= 1

\* async_scrape has returned its list to main.
Returned == pc \in {"exporting", "done"}

ItemUrls(items) == {items[i].url : i \in 1..Len(items)}

StoreUrls(store) == {r.url : r \in store.rows}

Denied(i) == ~can_fetch(robot_parser, urls[i])

\* C1: a URL the loaded ruleset denies is never requested, by
\* async_fetch_page or by fetch_page, and its result is None, in every
\* interleaving of the tasks.
C1_DeniedNeverRequested ==
    /\ \A i \in TaskIds :
         Denied(i) =>
           /\ tasks[i].sent = 0
           /\ tasks[i].st \in {"pending", "done"}
           /\ tasks[i].res = None
           /\ Gathered => pages[i] = None
    /\ (last_fetch /= NoFetch /\ ~can_fetch(robot_parser, last_fetch.url)) =>
         (~last_fetch.sent /\ last_fetch.res = None)

\* A denied task has returned while the request of an allowed one is in flight.
C1_Witness ==
    /\ robot_parser.last_checked
    /\ \E i, j \in TaskIds :
         /\ Denied(i) /\ tasks[i].st = "done"
         /\ ~Denied(j) /\ tasks[j].st = "inflight"

\* C2: the gathered results are as many as the urls, and the result at
\* position i is the result of the task of urls[i], whatever the order in
\* which the requests resolved.
C2_GatherKeepsUrlOrder ==
    Gathered =>
      /\ Len(pages) = Len(urls)
      /\ Len(tasks) = Len(urls)
      /\ \A i \in 1..Len(urls) : pages[i] = tasks[i].res

\* The request of the last url resolved first, with a result other than
\* that of the first url.
C2_Witness ==
    /\ Gathered
    /\ Len(urls) >= 2
    /\ first_done = Len(urls)
    /\ pages[1] /= pages[Len(urls)]

\* C3 (as claimed): a page answered with a non-2xx status is a failure: it
\* is absent from the returned list and is not upserted, while the pages
\* fetched successfully are present.
C3_Non2xxIsAbsent ==
    Returned =>
      /\ \A i \in TaskIds :
           tasks[i].got = "500" =>
             /\ tasks[i].res = None
             /\ urls[i] \notin ItemUrls(results)
             /\ urls[i] \notin ItemUrls(upserts)
      /\ \A i \in TaskIds :
           (tasks[i].got = "200" /\ Truthy(tasks[i].res)) => urls[i] \in ItemUrls(results)

\* The urls whose task returned a str (a Success), in url order.
SuccessUrls ==
    LET F[i \in 0..Len(urls)] ==
          IF i = 0 THEN <<>>
          ELSE IF tasks[i].res.some THEN Append(F[i - 1], urls[i]) ELSE F[i - 1]
    IN F[Len(urls)]

\* C4 (as claimed): the returned list holds exactly one item per url whose
\* result is a Success, whatever the body, in url order, and each of them
\* was upserted.
C4_OneItemPerSuccess ==
    Returned =>
      /\ [i \in 1..Len(results) |-> results[i].url] = SuccessUrls
      /\ upserts = results

\* The position of the latest upsert of the url of upserts[j].
LastUpsertOf(j) ==
    CHOOSE m \in 1..Len(upserts) :
      /\ upserts[m].url = upserts[j].url
      /\ \A n \in 1..Len(upserts) : upserts[n].url = upserts[j].url => n <= m

\* C5: after any sequence of upserts from any store, no two rows share a
\* url, and the row of an upserted url holds the title and description of
\* the latest upsert of that url.
C5_UpsertKeepsOneRowPerUrl ==
    /\ \A r1, r2 \in db.rows : r1.url = r2.url => r1 = r2
    /\ \A j \in 1..Len(upserts) :
         \E r \in db.rows :
           /\ r.url = upserts[j].url
           /\ r.title = upserts[LastUpsertOf(j)].title
           /\ r.description = upserts[LastUpsertOf(j)].description

\* A url the store already held was upserted with one item and then twice
\* with another, identical, item.
C5_Witness ==
    /\ Len(upserts) = 3
    /\ upserts[1].url = upserts[2].url
    /\ upserts[1] /= upserts[2]
    /\ upserts[2] = upserts[3]
    /\ upserts[1].url \in StoreUrls(db0)
    /\ Cardinality({r \in db.rows : r.url = upserts[1].url}) = 1

NoPageRequested ==
    /\ \A i \in TaskIds : tasks[i].sent = 0
    /\ ~last_fetch.sent

\* C6 (as claimed): when robots.txt cannot be retrieved (network error, 4xx
\* or 5xx), the run aborts and no page is ever requested.
C6_PolicyUnavailableAborts ==
    robots_how \notin {"none", "200"} => (pc = "aborted" /\ NoPageRequested)

\* C7 (as claimed): a fetch failure of one url (policy denial, connection
\* error, request timeout, HTTP status error) is a None result of that url
\* and never ends the run by an exception.
C7_FetchFailureIsLocal ==
    \A i \in TaskIds :
      /\ tasks[i].st /= "raised"
      /\ (tasks[i].got \in {"client_error", "timeout", "500"}) =>
           (tasks[i].st = "done" /\ tasks[i].res = None)

\* A concurrency limit below the number of urls a run may generate.
ConcurrencyLimit == MaxPages - 1

InFlight == {i \in TaskIds : tasks[i].st = "inflight"}

\* C8 (as claimed): the requests in flight at once never exceed the
\* concurrency limit, however many urls are generated.
C8_InFlightBounded ==
    Cardinality(InFlight) <= ConcurrencyLimit

\* C9: every url is attempted once: no task issues a second request, a
\* failed url is not tried again, the urls are distinct, and gather yields
\* one result per url.
C9_EachUrlAttemptedOnce ==
    /\ \A i \in TaskIds :
         /\ tasks[i].sent <= 1
         /\ tasks[i].got /= "none" => tasks[i].st \in {"done", "raised"}
         /\ (tasks[i].st = "done" /\ Denied(i)) => tasks[i].sent = 0
    /\ \A i, j \in 1..Len(urls) : urls[i] = urls[j] => i = j
    /\ Len(tasks) = Len(urls)
    /\ Gathered => Len(pages) = Len(urls)

\* The run is over, one request failed and was sent once.
C9_Witness ==
    /\ pc = "done"
    /\ \E i \in TaskIds :
         tasks[i].got = "client_error" /\ tasks[i].sent = 1 /\ pages[i] = None

\* C10 (as claimed): when the run completes, the urls of the returned list
\* are the urls of the store.
C10_ListUrlsEqualStoreUrls ==
    pc = "done" => ItemUrls(results) = StoreUrls(db)

\* C10 (amended): when the run completes, the urls of the store are those
\* it held before the run together with those of the returned list.
C10_StoreUrlsAreOldAndListUrls ==
    pc = "done" => StoreUrls(db) = StoreUrls(db0) \cup ItemUrls(results)

\* The run is over, the store held a page before it that the run did not
\* return, and the run returned another page.
C10_Witness ==
    /\ pc = "done"
    /\ results /= <<>>
    /\ \E u \in StoreUrls(db0) : u \notin ItemUrls(results)

\* The store after the upserts of `items`, in order, from `store`.
RECURSIVE ApplyAll(_, _)
ApplyAll(store, items) ==
    IF items = <<>> THEN store
    ELSE ApplyAll(save_to_database(store, Head(items)), Tail(items))

\* C11 (as claimed): an extraction failure or a store write failure of one
\* item does not abort the run: after the gather the run is never left by
\* an exception, and every other fetched page is in the returned list.
C11_ItemFailureIsLocal ==
    /\ Gathered => pc /= "aborted"
    /\ Returned =>
         \A i \in TaskIds :
           (Truthy(pages[i]) /\ ~ExtractRaises(pages[i].text)) =>
             urls[i] \in ItemUrls(results)

BrowserGet == [method |-> "GET", ua |-> BrowserUserAgent]

\* C12 (as claimed): every page request, of async_fetch_page and of
\* fetch_page, is a GET with the browser User-Agent set in __init__.
C12_RequestsCarryBrowserUserAgent ==
    /\ \A i \in TaskIds : tasks[i].sent > 0 => tasks[i].req = BrowserGet
    /\ last_fetch.sent => last_fetch.req = BrowserGet

\* C13 (as claimed): control leaves the gather only when no request is in
\* flight, nothing is extracted or upserted while one is, and the upserts
\* run one at a time.
C13_NoFetchInFlightAfterGather ==
    /\ pc \notin {"init", "loaded", "fetching"} => InFlight = {}
    /\ (all_data /= <<>> \/ upserts /= <<>> \/ conn /= db) => InFlight = {}
    /\ Len(all_data) - Len(upserts) \in {0, 1}

PhaseRank(p) ==
    CASE p = "init" -> 0
      [] p = "loaded" -> 1
      [] p = "fetching" -> 2
      [] p = "persisting" -> 3
      [] p = "exporting" -> 4
      [] p = "done" -> 5
      [] OTHER -> 6

Sent(ts) == {i \in 1..Len(ts) : ts[i].sent > 0}

\* C14: a run steps through init, loaded, fetching, persisting, exporting,
\* done in that order, one phase at a time and never back (an exception or
\* a kill ends it where it is); a page is requested only once robots.txt
\* was read, and from the export on the store is not written.
C14_PhasesInOrder ==
    [][/\ pc' /= pc =>
            /\ pc \notin {"done", "aborted", "crashed"}
            /\ PhaseRank(pc') = PhaseRank(pc) + 1 \/ pc' \in {"aborted", "crashed"}
       /\ (Sent(tasks') /= Sent(tasks) \/ (last_fetch'.sent /\ last_fetch' /= last_fetch)) =>
            /\ robots_how \notin {"none", "neterr"}
            /\ PhaseRank(pc) \in {1, 2}
       /\ pc \in {"exporting", "done"} =>
            /\ db' = db /\ conn' = conn /\ upserts' = upserts
            /\ k > ZipLen(urls, pages) /\ at = "item"]_vars

\* A run is over that requested a page, skipped a denied one and upserted
\* two items.
C14_Witness ==
    /\ pc = "done"
    /\ Len(upserts) >= 2
    /\ \E i \in TaskIds : Denied(i)

\* C15: when the process is killed in the loop, the store holds what it
\* held before the run with the upserts of the items whose save returned
\* applied in order, and nothing of an item whose commit had not returned.
C15_CrashKeepsCommittedUpserts ==
    pc = "crashed" =>
      /\ db = ApplyAll(db0, upserts)
      /\ conn = db
      /\ Len(all_data) - Len(upserts) \in {0, 1}

\* The process was killed between the INSERT and the commit of the second
\* item.
C15_Witness ==
    /\ pc = "crashed"
    /\ at = "commit"
    /\ Len(upserts) = 1
    /\ Len(all_data) = 2
    /\ db /= db0

\* C16 (as claimed): once robots.txt was read, a run that is not killed
\* goes on until it is done: it never stops anywhere else.
C16_RunEndsInDone ==
    (robots_how \notin {"none", "neterr"} /\ pc /= "crashed") =>
      (pc = "done" \/ ENABLED Next)

\* The list a run returns for its urls and the results of its tasks: the
\* items of the truthy results, in url order.
ExpectedList ==
    LET F[i \in 0..Len(urls)] ==
          IF i = 0 THEN <<>>
          ELSE IF Truthy(tasks[i].res)
               THEN Append(F[i - 1], extract_data(tasks[i].res.text, urls[i]))
               ELSE F[i - 1]
    IN F[Len(urls)]

\* C17: the returned list, the sequence of upserts and the store of a
\* completed run are functions of the store found, the urls and the result
\* of each url alone, whatever the order in which the requests resolved.
C17_OutcomeIndependentOfCompletionOrder ==
    pc = "done" =>
      /\ results = ExpectedList
      /\ upserts = ExpectedList
      /\ db = ApplyAll(db0, ExpectedList)

\* A completed run whose first url did not resolve first and that returned
\* two different items.
C17_Witness ==
    /\ pc = "done"
    /\ first_done >= 2
    /\ Len(results) >= 2
    /\ results[1].title /= results[2].title

\* C18 (as claimed): an upsert of a stored url keeps the id of its row.
C18_UpsertKeepsId ==
    \A r0 \in db0.rows : \E r \in db.rows : r.url = r0.url /\ r.id = r0.id

\* C18 (amended): an upsert replaces the row of its url by a row with a new
\* id, the next of the AUTOINCREMENT sequence, whether the url was stored or
\* not; the id of the replaced row is no longer in the table.
C18_UpsertAllocatesNewId ==
    /\ \A j \in 1..Len(upserts) :
         \E r \in db.rows :
           /\ r.url = upserts[j].url
           /\ r.id = db0.seq + LastUpsertOf(j)
           /\ r.title = upserts[LastUpsertOf(j)].title
           /\ r.description = upserts[LastUpsertOf(j)].description
    /\ \A r0 \in db0.rows :
         r0.url \in ItemUrls(upserts) => r0.id \notin {r.id : r \in db.rows}
    /\ \A r1, r2 \in db.rows : r1.id = r2.id => r1 = r2

\* A url the store held was upserted, and another that it did not hold.
C18_Witness ==
    /\ Len(upserts) >= 2
    /\ upserts[1].url \in StoreUrls(db0)
    /\ upserts[2].url \notin StoreUrls(db0)
    /\ Cardinality(db.rows) = Cardinality(db0.rows) + 1

====
